---- MODULE Spec2Model ----
(***************************************************************************)
(* A model of the AIDungeonMaster bot: the game-state layer of             *)
(* persistence.py (GameStateManager: XP, levels, hit points, ability       *)
(* checks, save and load) and the conversation handlers of                 *)
(* dungeon_master.py that act on it.                                       *)
(***************************************************************************)
EXTENDS Integers, Sequences, FiniteSets, TLC

VARIABLES
    state,            \* GameStateManager.state, the in-memory game state
    disk,             \* the player's save file saves/<user_id>.json
    last_saved,       \* history: the state written by the last save() still on disk
    nops,             \* number of state-changing calls made so far
    ret,              \* the last call and what it returned
    conv,             \* the ConversationHandler state of the player's chat
    current_choices,  \* context.user_data["current_choices"]
    pending_roll,     \* context.user_data["pending_roll"]
    buttons,          \* the inline buttons sent to the chat so far
    scene,            \* number of the scene whose choices are stored
    has_gsm,          \* "gsm" in context.user_data
    action_log,       \* what GameStateManager.log_action has been given
    ev,               \* history: what the last handler did
    llm,              \* one _call_llm_json request: position, calls made, result
    backups,          \* the clock and the *.bak.json files under saves/
    ptb               \* TelegramJSONPersistence: its data and its files

vars == <<state, disk, last_saved, nops, ret, conv, current_choices,
          pending_roll, buttons, scene, has_gsm, action_log, ev, llm,
          backups, ptb>>

gsmVars == <<state, disk, last_saved, nops, ret>>
chatVars ==
    <<conv, current_choices, pending_roll, buttons, scene, has_gsm, action_log, ev>>
sideVars == <<backups, ptb>>
convVars == <<chatVars, llm, sideVars>>

(***************************************************************************)
(* Bounds of the model.                                                    *)
(***************************************************************************)
MaxOps == 4          \* state-changing calls in one run of the game-state layer
MaxLevelArg == 21    \* proficiency_bonus is applied to levels 0..MaxLevelArg
MaxScore == 24       \* the modifiers are applied to scores -MaxScore..MaxScore
MaxUpdates == 6      \* Telegram updates handled in one run of the conversation
MaxPtbUpdates == 3   \* updates given to one TelegramJSONPersistence in one run
MaxAutosaves == 6    \* autosaves of one player in one run

Max(a, b) == IF a >= b THEN a ELSE b
Min(a, b) == IF a <= b THEN a ELSE b
Range(s) == {s[i] : i \in 1..Len(s)}

(***************************************************************************)
(* Strings that the code normalises.  A name is a sequence of tokens: a    *)
(* word (its letters in lower case, and how it is capitalised) or a space. *)
(* str.strip() drops the spaces at both ends and str.title() capitalises   *)
(* every word.                                                             *)
(***************************************************************************)
Word(w, c) == [w |-> w, c |-> c]
SP == [w |-> " ", c |-> "sp"]
T1(w) == <<Word(w, "title")>>
L1(w) == <<Word(w, "lower")>>
U1(w) == <<Word(w, "upper")>>
EmptyName == <<>>

RECURSIVE LStrip(_)
LStrip(s) == IF s # <<>> /\ Head(s) = SP THEN LStrip(Tail(s)) ELSE s

RECURSIVE RStrip(_)
RStrip(s) ==
    IF s # <<>> /\ s[Len(s)] = SP THEN RStrip(SubSeq(s, 1, Len(s) - 1)) ELSE s

Strip(s) == RStrip(LStrip(s))

Title(s) ==
    [i \in 1..Len(s) |-> IF s[i] = SP THEN SP ELSE Word(s[i].w, "title")]

\* str.capitalize(): the first letter in upper case, the rest in lower case
Capitalize(s) ==
    [i \in 1..Len(s) |->
        IF s[i] = SP THEN SP ELSE Word(s[i].w, IF i = 1 THEN "title" ELSE "lower")]

STR == U1("str")
DEX == U1("dex")
CON == U1("con")
INT == U1("int")
WIS == U1("wis")
CHA == U1("cha")
Strength == T1("strength")
Dexterity == T1("dexterity")
Stealth == T1("stealth")
Acrobatics == T1("acrobatics")
Athletics == T1("athletics")
AnimalHandling == <<Word("animal", "title"), SP, Word("handling", "title")>>

Row(key, abbr, skills) == [key |-> key, abbr |-> abbr, skills |-> skills]

SKILL_ROWS ==
    { Row(Strength, STR, {}),
      Row(Dexterity, DEX, {Acrobatics, Stealth}),
      Row(T1("constitution"), CON, {}),
      Row(T1("intelligence"), INT,
          {T1("arcana"), T1("history"), T1("investigation"), T1("nature"),
           T1("religion")}),
      Row(T1("wisdom"), WIS,
          {AnimalHandling, T1("insight"), T1("medicine"), T1("perception")}),
      Row(T1("charisma"), CHA,
          {T1("deception"), T1("intimidation"), T1("performance"),
           T1("persuasion")}),
      Row(Athletics, STR, {Athletics}),
      Row(Stealth, DEX, {Stealth}),
      Row(T1("arcana"), INT, {T1("arcana")}),
      Row(T1("history"), INT, {T1("history")}),
      Row(T1("insight"), WIS, {T1("insight")}),
      Row(T1("investigation"), INT, {T1("investigation")}),
      Row(T1("medicine"), WIS, {T1("medicine")}),
      Row(T1("nature"), INT, {T1("nature")}),
      Row(T1("religion"), INT, {T1("religion")}),
      Row(AnimalHandling, WIS, {AnimalHandling}),
      Row(T1("deception"), CHA, {T1("deception")}),
      Row(T1("intimidation"), CHA, {T1("intimidation")}),
      Row(T1("performance"), CHA, {T1("performance")}),
      Row(T1("persuasion"), CHA, {T1("persuasion")}),
      Row(T1("perception"), WIS, {T1("perception")}) }

SKILL_MAP ==
    [k \in {r.key : r \in SKILL_ROWS} |->
        LET r == CHOOSE r \in SKILL_ROWS : r.key = k
        IN  [abbr |-> r.abbr, skills |-> r.skills]]

\* dict.get(k, d)
Get(f, k, d) == IF k \in DOMAIN f THEN f[k] ELSE d

(***************************************************************************)
(* The arithmetic of a check.                                              *)
(***************************************************************************)
ability_mod_trunc(score) ==
    IF score >= 10 THEN (score - 10) \div 2 ELSE 0 - ((10 - score) \div 2)

ability_mod(score) == (score - 10) \div 2

calculate_modifier(score) == (score - 10) \div 2

proficiency_bonus_off(level) == 2 + Max(1, level) \div 4

proficiency_bonus(level) == 2 + (Max(1, level) - 1) \div 4

D20 == {1, 2, 10, 19, 20}    \* the faces of random.randint(1, 20) that are tried

\* key = (ability_or_skill or "Strength").strip().title()
check_key(ability_or_skill) ==
    Title(Strip(IF ability_or_skill = EmptyName THEN Strength
                ELSE ability_or_skill))

skill_entry_dex(key) ==
    IF key \in DOMAIN SKILL_MAP THEN SKILL_MAP[key]
    ELSE [abbr |-> DEX, skills |-> {}]

\* abbr, skills = SKILL_MAP.get(key, (STR, []))
skill_entry(key) ==
    IF key \in DOMAIN SKILL_MAP THEN SKILL_MAP[key]
    ELSE [abbr |-> STR, skills |-> {}]

pick_d20_swapped(mode, d1, d2) ==
    IF mode = "advantage" THEN [d20 |-> Min(d1, d2), raw |-> <<d1, d2>>]
    ELSE IF mode = "disadvantage" THEN [d20 |-> Max(d1, d2), raw |-> <<d1, d2>>]
    ELSE [d20 |-> d1, raw |-> <<d1>>]

pick_d20(mode, d1, d2) ==
    IF mode = "advantage" THEN [d20 |-> Max(d1, d2), raw |-> <<d1, d2>>]
    ELSE IF mode = "disadvantage" THEN [d20 |-> Min(d1, d2), raw |-> <<d1, d2>>]
    ELSE [d20 |-> d1, raw |-> <<d1>>]

is_proficient_key_only(key, skills, profs) == key \in profs

\* any(s in profs for s in skills) or key in profs
is_proficient(key, skills, profs) ==
    (\E s \in skills : s \in profs) \/ key \in profs

check_success_strict(total, dc) == total > dc

check_success(total, dc) == total >= dc

compute_check(st, ability_or_skill, dc, d1, d2) ==
    LET profs == Range(st.proficiencies)
        mode  == st.roll_mode
        key   == check_key(ability_or_skill)
        entry == skill_entry(key)
        score == Get(st.abilities, entry.abbr, 10)
        mod   == ability_mod(score)
        die   == pick_d20(mode, d1, d2)
        prof  == IF is_proficient(key, entry.skills, profs)
                 THEN proficiency_bonus(st.level) ELSE 0
        total == die.d20 + mod + prof
    IN  [mode |-> mode, raw |-> die.raw, d20 |-> die.d20, mod |-> mod,
         prof |-> prof, total |-> total, dc |-> dc,
         ability |-> ability_or_skill, success |-> check_success(total, dc)]

(***************************************************************************)
(* The game state and its JSON file.                                       *)
(***************************************************************************)
DEFAULT_STATE ==
    [name          |-> EmptyName,
     character     |-> [k \in {"race_class", "motivation"} |-> EmptyName],
     abilities     |-> [k \in {STR, DEX, CON, INT, WIS, CHA} |-> 10],
     proficiencies |-> <<>>,
     hp            |-> 10,
     max_hp        |-> 10,
     inventory     |-> <<>>,
     level         |-> 1,
     xp            |-> 0,
     story         |-> <<>>,
     choice_buffer |-> [scene_id |-> "", choices |-> <<>>],
     roll_mode     |-> "normal"]

XP_THRESHOLDS == <<0, 300, 900, 2700, 6500, 14000, 23000, 34000, 48000, 64000>>

HP_PER_LEVEL == 3

\* A JSON document: numbers are written in decimal digits, lists become
\* arrays and dicts become objects.
RECURSIVE Digits(_)
Digits(n) == IF n < 10 THEN <<n>> ELSE Append(Digits(n \div 10), n % 10)

RECURSIVE DigitsValue(_)
DigitsValue(d) ==
    IF d = <<>> THEN 0
    ELSE 10 * DigitsValue(SubSeq(d, 1, Len(d) - 1)) + d[Len(d)]

JNum(n) ==
    [t |-> "num", neg |-> n < 0, digits |-> Digits(IF n < 0 THEN 0 - n ELSE n)]
JStr(s) == [t |-> "str", s |-> s]
JNums(f) == [t |-> "obj", members |-> [k \in DOMAIN f |-> JNum(f[k])]]
JStrs(q) == [t |-> "arr", items |-> [i \in 1..Len(q) |-> JStr(q[i])]]

NumOf(j) == IF j.neg THEN 0 - DigitsValue(j.digits) ELSE DigitsValue(j.digits)
NumsOf(j) == [k \in DOMAIN j.members |-> NumOf(j.members[k])]
StrsOf(j) == [i \in 1..Len(j.items) |-> j.items[i].s]

\* the entries of state["character"] that are not texts of their own key;
\* the field character of a state holds the others
CharacterFields == {"name", "abilities", "proficiencies", "hp", "max_hp"}

\* json.dumps(self.state, ensure_ascii=False, indent=2)
json_dumps(st) ==
    [t |-> "obj", members |-> [
        character |-> [t |-> "obj", members |->
            [name          |-> JStr(st.name),
             abilities     |-> JNums(st.abilities),
             proficiencies |-> JStrs(st.proficiencies),
             hp            |-> JNum(st.hp),
             max_hp        |-> JNum(st.max_hp)]
            @@ [k \in DOMAIN st.character |-> JStr(st.character[k])]],
        inventory     |-> JStrs(st.inventory),
        level         |-> JNum(st.level),
        xp            |-> JNum(st.xp),
        story         |-> JStrs(st.story),
        choice_buffer |-> [t |-> "obj", members |-> [
            scene_id |-> JStr(st.choice_buffer.scene_id),
            choices  |-> JStrs(st.choice_buffer.choices)]],
        roll_mode     |-> JStr(st.roll_mode)]]

\* json.loads(self.filename.read_text(encoding="utf-8"))
json_loads(doc) ==
    LET m == doc.members
        c == m.character.members
    IN  [name          |-> c.name.s,
         character     |-> [k \in DOMAIN c \ CharacterFields |-> c[k].s],
         abilities     |-> NumsOf(c.abilities),
         proficiencies |-> StrsOf(c.proficiencies),
         hp            |-> NumOf(c.hp),
         max_hp        |-> NumOf(c.max_hp),
         inventory     |-> StrsOf(m.inventory),
         level         |-> NumOf(m.level),
         xp            |-> NumOf(m.xp),
         story         |-> StrsOf(m.story),
         choice_buffer |-> [scene_id |-> m.choice_buffer.members.scene_id.s,
                            choices  |-> StrsOf(m.choice_buffer.members.choices)],
         roll_mode     |-> m.roll_mode.s]

NoFile == [kind |-> "none"]
TextFile(doc) == [kind |-> "text", doc |-> doc]
\* a file that a failed write has left truncated: its text is not JSON
PartialFile == [kind |-> "partial"]
NoSnapshot == [kind |-> "none"]
Snapshot(st) == [kind |-> "state", st |-> st]

\* How a write of the save file can end: it goes through, open() fails and
\* the file is left as it was, or the write fails after open() has truncated
\* the file.
WriteOutcomes == {"ok", "open_fails", "write_fails"}

\* GameStateManager.save: write_text is not inside a try, so a failing write
\* raises to the caller
save(st, file, wr) ==
    IF wr = "ok" THEN [raised |-> FALSE, file |-> TextFile(json_dumps(st))]
    ELSE IF wr = "open_fails" THEN [raised |-> TRUE, file |-> file]
    ELSE [raised |-> TRUE, file |-> PartialFile]

post_init_ignores_file(file) == DEFAULT_STATE

\* GameStateManager.__post_init__: the state a new manager starts with.  A
\* file that json.loads rejects leaves the defaults in place (lines 124-125).
post_init(file) ==
    IF file.kind = "text" THEN json_loads(file.doc) ELSE DEFAULT_STATE

(***************************************************************************)
(* XP and levels.                                                          *)
(***************************************************************************)
RECURSIVE level_scan_strict(_, _, _)
level_scan_strict(xp, i, new_level) ==
    IF i > Len(XP_THRESHOLDS) THEN new_level
    ELSE level_scan_strict(xp, i + 1, IF xp > XP_THRESHOLDS[i] THEN i ELSE new_level)

\* for i, thresh in enumerate(XP_THRESHOLDS): if xp >= thresh: new_level = i + 1
RECURSIVE level_scan(_, _, _)
level_scan(xp, i, new_level) ==
    IF i > Len(XP_THRESHOLDS) THEN new_level
    ELSE level_scan(xp, i + 1, IF xp >= XP_THRESHOLDS[i] THEN i ELSE new_level)

maybe_level_up_no_max(st) ==
    IF level_scan(st.xp, 1, 1) > st.level
    THEN [st EXCEPT !.level = level_scan(st.xp, 1, 1),
                    !.hp = st.hp + HP_PER_LEVEL]
    ELSE st

maybe_level_up_to_table(st) ==
    LET new_level == level_scan(st.xp, 1, 1)
    IN  IF new_level # st.level
        THEN [st EXCEPT !.level = new_level,
                        !.max_hp = st.max_hp + HP_PER_LEVEL,
                        !.hp = Min(st.hp + HP_PER_LEVEL, st.max_hp + HP_PER_LEVEL)]
        ELSE st

\* GameStateManager._maybe_level_up
maybe_level_up(st) ==
    LET new_level == level_scan(st.xp, 1, 1)
    IN  IF new_level > st.level
        THEN [st EXCEPT !.level = new_level,
                        !.max_hp = st.max_hp + HP_PER_LEVEL,
                        !.hp = Min(st.hp + HP_PER_LEVEL, st.max_hp + HP_PER_LEVEL)]
        ELSE st

award_xp_no_floor(st, amount) ==
    maybe_level_up([st EXCEPT !.xp = st.xp + amount])

\* GameStateManager.award_xp
award_xp(st, amount) ==
    maybe_level_up([st EXCEPT !.xp = Max(0, st.xp + amount)])

award_milestone_own_threshold(st) ==
    LET next_needed == XP_THRESHOLDS[Min(st.level, Len(XP_THRESHOLDS))]
    IN  maybe_level_up(IF st.xp < next_needed THEN [st EXCEPT !.xp = next_needed]
                       ELSE st)

\* GameStateManager.award_milestone
award_milestone(st) ==
    LET cur == st.xp
        lvl == st.level
        next_needed == XP_THRESHOLDS[Min(lvl, Len(XP_THRESHOLDS) - 1) + 1]
    IN  maybe_level_up(IF cur < next_needed THEN [st EXCEPT !.xp = next_needed]
                       ELSE st)

(***************************************************************************)
(* Consequence application.  persistence.py holds no code for it; it is    *)
(* modelled from section 4.2 of the specification: clamp the hit points to *)
(* [0, max_hp], add the XP delta, append the gained items, remove the lost *)
(* ones, raise the XP to the next threshold on a milestone, and save.      *)
(***************************************************************************)
RECURSIVE without(_, _)
without(inv, lost) ==
    IF inv = <<>> THEN <<>>
    ELSE IF Head(inv) \in Range(lost) THEN without(Tail(inv), lost)
    ELSE <<Head(inv)>> \o without(Tail(inv), lost)

apply_consequences(st, c) ==
    LET s1 == [st EXCEPT !.hp = Max(0, Min(st.max_hp, st.hp + c.hp_delta))]
        s2 == award_xp(s1, c.xp_delta)
        s3 == [s2 EXCEPT
                 !.inventory = without(s2.inventory \o c.items_gained, c.items_lost)]
    IN  IF c.milestone THEN award_milestone(s3) ELSE s3

Cons(hp, xp, gained, lost, ms) ==
    [hp_delta |-> hp, xp_delta |-> xp, items_gained |-> gained,
     items_lost |-> lost, milestone |-> ms]

\* the consequences that are tried
Consequences ==
    { Cons(0 - 50, 0, <<>>, <<>>, FALSE),
      Cons(0 - 3, 50, <<"rope">>, <<>>, FALSE),
      Cons(2, 0, <<>>, <<"rope">>, FALSE),
      Cons(50, 250, <<>>, <<>>, FALSE),
      Cons(0 - 1, 0 - 400, <<>>, <<>>, TRUE) }

\* the XP amounts that are tried
XpAmounts == {0 - 1000, 0 - 1, 1, 299, 900, 64000}

Before(st) == [xp |-> st.xp, level |-> st.level, hp |-> st.hp, max_hp |-> st.max_hp]

(***************************************************************************)
(* The game-state layer as a state machine: SpecGsm.                       *)
(***************************************************************************)
\* no _call_llm_json request has been made
NoResult == [exc |-> FALSE, val |-> [kind |-> "none", keys |-> {}]]
LlmIdle(fallback) ==
    [pc |-> "idle", builder |-> "none", fallback |-> fallback, phase |-> "primary",
     attempt |-> 1, calls |-> <<>>, result |-> NoResult]

ChatIdle ==
    /\ conv = "END"
    /\ current_choices = <<>>
    /\ pending_roll = [kind |-> "none"]
    /\ buttons = {}
    /\ scene = 0
    /\ has_gsm = FALSE
    /\ action_log = <<>>
    /\ ev = [op |-> "none"]

\* no backup has been written, and no TelegramJSONPersistence exists
NoBackups == [clock |-> 0, files |-> {}, made |-> <<>>]
NoPtb == [kind |-> "none"]
SideIdle == backups = NoBackups /\ ptb = NoPtb

ConvIdle == llm = LlmIdle("gpt-4o-mini") /\ ChatIdle /\ SideIdle

InitGsm ==
    /\ state = DEFAULT_STATE
    /\ disk = NoFile
    /\ last_saved = NoSnapshot
    /\ nops = 0
    /\ ret = [fn |-> "none"]
    /\ ConvIdle

AwardXp(amount) ==
    /\ nops < MaxOps
    /\ state' = award_xp(state, amount)
    /\ nops' = nops + 1
    /\ ret' = [fn |-> "award_xp", amount |-> amount, before |-> Before(state)]
    /\ UNCHANGED <<disk, last_saved>>
    /\ UNCHANGED convVars

AwardMilestone ==
    /\ nops < MaxOps
    /\ state' = award_milestone(state)
    /\ nops' = nops + 1
    /\ ret' = [fn |-> "award_milestone", before |-> Before(state)]
    /\ UNCHANGED <<disk, last_saved>>
    /\ UNCHANGED convVars

ApplyConsequences(c) ==
    /\ nops < MaxOps
    /\ state' = apply_consequences(state, c)
    /\ disk' = TextFile(json_dumps(state'))
    /\ last_saved' = Snapshot(state')
    /\ nops' = nops + 1
    /\ ret' = [fn |-> "apply_consequences", hp_delta |-> c.hp_delta,
               before |-> Before(state)]
    /\ UNCHANGED convVars

\* a call of GameStateManager.save, with the way its write ends
Save(wr) ==
    /\ disk' = save(state, disk, wr).file
    /\ last_saved' = IF wr = "ok" THEN Snapshot(state)
                     ELSE IF wr = "open_fails" THEN last_saved
                     ELSE NoSnapshot
    /\ ret' = [fn |-> "save", raised |-> save(state, disk, wr).raised]
    /\ UNCHANGED <<state, nops>>
    /\ UNCHANGED convVars

\* GameStateManager(user_id): a new manager for the same player
Construct ==
    /\ state' = post_init(disk)
    /\ ret' = [fn |-> "construct", raised |-> FALSE, file |-> disk.kind]
    /\ UNCHANGED <<disk, last_saved, nops>>
    /\ UNCHANGED convVars

\* the arguments of /boost that are tried
BoostArgs == {<<>>, <<L1("strength"), 2>>, <<U1("str"), 0 - 12>>}

\* boost in dungeon_master.py, for a player whose game is loaded
Boost(args) ==
    /\ nops < MaxOps
    /\ nops' = nops + 1
    /\ ret' = [fn |-> "boost", before |-> Before(state), applied |-> Len(args) >= 2,
               ability |-> IF Len(args) >= 2 THEN args[1] ELSE EmptyName,
               score |-> IF Len(args) >= 2
                         THEN Get(state.abilities, Capitalize(args[1]), 10) + args[2]
                         ELSE 0]
    /\ IF Len(args) < 2
       THEN UNCHANGED <<state, disk, last_saved>>
       ELSE LET ability == Capitalize(args[1])
                amount  == args[2]
                current == Get(state.abilities, ability, 10)
            IN  /\ state' = [state EXCEPT !.abilities =
                                (ability :> (current + amount)) @@ state.abilities]
                /\ disk' = TextFile(json_dumps(state'))
                /\ last_saved' = Snapshot(state')
    /\ UNCHANGED convVars

\* compute_check for the ability that the /boost just before it was given
CheckBoosted(dc) ==
    /\ ret.fn = "boost"
    /\ ret.applied
    /\ \E d1 \in D20 :
          ret' = [fn |-> "compute_check", ability_or_skill |-> ret.ability,
                  draws |-> <<d1, 10>>, boosted_score |-> ret.score,
                  out |-> compute_check(state, ret.ability, dc, d1, 10)]
    /\ UNCHANGED <<state, disk, last_saved, nops>>
    /\ UNCHANGED convVars

NextGsm ==
    \/ CheckBoosted(12)
    \/ \E amount \in XpAmounts : AwardXp(amount)
    \/ AwardMilestone
    \/ \E c \in Consequences : ApplyConsequences(c)
    \/ \E args \in BoostArgs : Boost(args)
    \/ \E wr \in WriteOutcomes : Save(wr)
    \/ Construct

SpecGsm == InitGsm /\ [][NextGsm]_vars

(***************************************************************************)
(* Claims about the game-state layer.                                      *)
(***************************************************************************)
\* C2: starting from 0 <= hp <= max_hp, after any sequence of consequence
\* applications, XP awards, milestones and the level-ups they trigger, the
\* hit points are within [0, max_hp].
C2_HpWithinMax == 0 <= state.hp /\ state.hp <= state.max_hp

\* a consequence that would heal above the maximum, applied to a character
\* that has gained a level and is left at full hit points
C2_Witness ==
    /\ ret.fn = "apply_consequences"
    /\ ret.before.hp + ret.hp_delta > ret.before.max_hp
    /\ state.level > 1
    /\ state.max_hp > DEFAULT_STATE.max_hp
    /\ state.hp = state.max_hp

\* C9: save() followed by the construction of a new GameStateManager for the
\* same player, with no other write of the file in between, yields the state
\* that was saved, field for field.
C9_RoundTrip ==
    (ret.fn = "construct" /\ last_saved.kind = "state") => state = last_saved.st

\* a reloaded state that differs from the defaults in its numbers, its
\* abilities and its inventory
C9_Witness ==
    /\ ret.fn = "construct"
    /\ last_saved.kind = "state"
    /\ state.xp > 0
    /\ state.level > 1
    /\ state.inventory # <<>>
    /\ \E k \in DOMAIN state.abilities : state.abilities[k] < 0

\* C10: xp >= 0 and level >= 1 always, and award_xp(a) sets xp to
\* max(0, old xp + a).
C10_XpFloor ==
    /\ state.xp >= 0
    /\ state.level >= 1
    /\ ret.fn = "award_xp" => state.xp = Max(0, ret.before.xp + ret.amount)

\* a negative award larger than the XP of a character above level 1
C10_Witness ==
    /\ ret.fn = "award_xp"
    /\ ret.before.xp + ret.amount < 0
    /\ ret.before.level > 1
    /\ state.xp = 0

\* the level the threshold table assigns to an amount of XP: the number of
\* thresholds that are <= xp
TableLevel(xp) ==
    Cardinality({i \in 1..Len(XP_THRESHOLDS) : XP_THRESHOLDS[i] <= xp})

IsAward == ret.fn \in {"award_xp", "award_milestone"}

\* C11: after award_milestone on a character of level L below the maximum
\* table level, xp is at least the threshold of level L+1 and the level is at
\* least L+1; a milestone never lowers xp.
C11_MilestoneReachesNextLevel ==
    ret.fn = "award_milestone" =>
        /\ state.xp >= ret.before.xp
        /\ ret.before.level < Len(XP_THRESHOLDS) =>
               /\ state.xp >= XP_THRESHOLDS[ret.before.level + 1]
               /\ state.level >= ret.before.level + 1

\* a milestone for a character above level 1 whose XP an earlier loss has
\* taken below the threshold of its own level
C11_Witness ==
    /\ ret.fn = "award_milestone"
    /\ ret.before.level >= 3
    /\ ret.before.xp < XP_THRESHOLDS[ret.before.level]
    /\ state.level = ret.before.level + 1
    /\ state.xp = XP_THRESHOLDS[state.level]

\* C12: when one award_xp or award_milestone raises the level from L to L+k,
\* max_hp grows by 3 for each of the k levels gained, 3*k in total.
C12_HpPerLevelGained ==
    (IsAward /\ state.level > ret.before.level) =>
        state.max_hp =
            ret.before.max_hp + HP_PER_LEVEL * (state.level - ret.before.level)

\* C13 (as amended): an award leaves the level at the larger of the level
\* before it and the level the threshold table assigns to the new xp; the
\* stored level is never below the table's level and stays above it after an
\* award that lowers xp.
C13_LevelAtLeastTable ==
    /\ state.level >= TableLevel(state.xp)
    /\ IsAward => state.level = Max(ret.before.level, TableLevel(state.xp))

\* C13 (as claimed): the stored level equals the level the threshold table
\* assigns to the stored xp.
C13_LevelEqualsTable == state.level = TableLevel(state.xp)

\* a negative award to a character that stands exactly on the threshold of
\* level 3: the XP falls below it and the level stays
C13_Witness ==
    /\ ret.fn = "award_xp"
    /\ ret.amount < 0
    /\ ret.before.xp = XP_THRESHOLDS[3]
    /\ state.level = 3
    /\ TableLevel(state.xp) < 3

\* C32: over any sequence of award_xp calls (negative amounts too) and
\* award_milestone calls, the level and max_hp never decrease.
C32_LevelNeverDecreases ==
    IsAward =>
        /\ state.level >= ret.before.level
        /\ state.max_hp >= ret.before.max_hp

\* a negative award that takes the XP of a character of level 2 or more
\* below the threshold of its level
C32_Witness ==
    /\ ret.fn = "award_xp"
    /\ ret.amount < 0
    /\ ret.before.level >= 2
    /\ state.xp < XP_THRESHOLDS[ret.before.level]
    /\ state.level = ret.before.level
    /\ state.max_hp = ret.before.max_hp

\* C18: a file I/O failure in the game-state layer never raises to the
\* caller: a save file that is not valid JSON makes the constructor yield
\* the default state, and a failing write in save() is caught.
C18_IoFailureNeverRaises ==
    /\ (ret.fn = "construct" /\ ret.file = "partial") =>
           (~ret.raised /\ state = DEFAULT_STATE)
    /\ ret.fn = "save" => ~ret.raised

\* C20: after every operation that mutates the game state (an XP award, a
\* milestone, the level-up they trigger, an ability boost) the save file on
\* disk equals the in-memory state.
C20_SavedAfterMutation ==
    (IsAward \/ (ret.fn = "boost" /\ ret.applied))
        => disk = TextFile(json_dumps(state))

(***************************************************************************)
(* The ability check as a state machine: SpecCheck.  The character is      *)
(* drawn from a set of sheets a save file can hold, and the functions of   *)
(* a check are applied to it.                                              *)
(***************************************************************************)
Lockpicking == T1("lockpicking")

CheckLevels == {1, 4, 5, 20}
CheckScores == [str : {3, 9, 19}, dex : {8, 14}]
CheckProficiencies ==
    { <<>>, <<Stealth>>, <<Dexterity>>, <<Strength>>, <<Lockpicking>>,
      <<L1("stealth")>>, <<Athletics, Dexterity>> }
RollModes == {"normal", "advantage", "disadvantage"}

\* the ability_or_skill arguments that are tried
CheckNames ==
    { EmptyName, <<SP, SP>>, L1("stealth"), <<SP, Word("stealth", "upper"), SP>>,
      Dexterity, Athletics, L1("lockpicking"),
      <<Word("animal", "lower"), SP, Word("handling", "lower")>> }

\* the difficulty classes that are tried
CheckDCs == {5, 12, 25}

InitCheck ==
    /\ \E lvl \in CheckLevels, sc \in CheckScores,
          profs \in CheckProficiencies, mode \in RollModes :
          state = [DEFAULT_STATE EXCEPT
                      !.level = lvl,
                      !.abilities = (STR :> sc.str) @@ (DEX :> sc.dex) @@ @,
                      !.proficiencies = profs,
                      !.roll_mode = mode]
    /\ disk = NoFile
    /\ last_saved = NoSnapshot
    /\ nops = 0
    /\ ret = [fn |-> "none"]
    /\ ConvIdle

\* None of these calls changes the game state, so a second call in the same
\* run finds what the first one found: a run makes one call.
NoCallYet == ret.fn = "none"

\* ability_mod (persistence.py) and calculate_modifier (dungeon_master.py)
\* applied to the same score
CallModifiers(score) ==
    /\ NoCallYet
    /\ ret' = [fn |-> "modifiers", score |-> score,
               ability_mod |-> ability_mod(score),
               calculate_modifier |-> calculate_modifier(score)]
    /\ UNCHANGED <<state, disk, last_saved, nops>>
    /\ UNCHANGED convVars

CallProficiencyBonus(level) ==
    /\ NoCallYet
    /\ ret' = [fn |-> "proficiency_bonus", level |-> level,
               bonus |-> proficiency_bonus(level)]
    /\ UNCHANGED <<state, disk, last_saved, nops>>
    /\ UNCHANGED convVars

\* GameStateManager.compute_check: d1 and d2 are both drawn before the roll
\* mode is looked at
ComputeCheck(ability_or_skill, dc) ==
    /\ NoCallYet
    /\ \E d1 \in D20, d2 \in D20 :
          ret' = [fn |-> "compute_check", ability_or_skill |-> ability_or_skill,
                  draws |-> <<d1, d2>>,
                  out |-> compute_check(state, ability_or_skill, dc, d1, d2)]
    /\ UNCHANGED <<state, disk, last_saved, nops>>
    /\ UNCHANGED convVars

NextCheck ==
    \/ \E score \in (0 - MaxScore)..MaxScore : CallModifiers(score)
    \/ \E level \in 0..MaxLevelArg : CallProficiencyBonus(level)
    \/ \E name \in CheckNames, dc \in CheckDCs : ComputeCheck(name, dc)

SpecCheck == InitCheck /\ [][NextCheck]_vars

(***************************************************************************)
(* Claims about the ability check.                                         *)
(***************************************************************************)
\* floor(n / 2) for every integer n, said without division
IsFloorHalf(m, n) == 2 * m <= n /\ n < 2 * m + 2

\* the five-tier table of levels 1..20
TierTable == <<2, 2, 2, 2, 3, 3, 3, 3, 4, 4, 4, 4, 5, 5, 5, 5, 6, 6, 6, 6>>

\* C3: for every score s, also below 10, ability_mod(s) and
\* calculate_modifier(s) both equal floor((s - 10) / 2), rounded toward
\* negative infinity: 10 -> 0, 8 -> -1, 19 -> 4.
C3_ModifierIsFloor ==
    ret.fn = "modifiers" =>
        /\ IsFloorHalf(ret.ability_mod, ret.score - 10)
        /\ ret.calculate_modifier = ret.ability_mod
        /\ ret.score = 10 => ret.ability_mod = 0
        /\ ret.score = 8 => ret.ability_mod = 0 - 1
        /\ ret.score = 19 => ret.ability_mod = 4

\* an odd score below 10, where rounding toward zero would give 0
C3_Witness ==
    /\ ret.fn = "modifiers"
    /\ ret.score = 9
    /\ ret.ability_mod = 0 - 1
    /\ ret.calculate_modifier = 0 - 1

\* C4: for every level L in 1..20, proficiency_bonus(L) is the five-tier
\* table: +2 for 1-4, +3 for 5-8, +4 for 9-12, +5 for 13-16, +6 for 17-20.
C4_ProficiencyTable ==
    (ret.fn = "proficiency_bonus" /\ ret.level \in 1..20) =>
        ret.bonus = TierTable[ret.level]

\* the first level of the last tier
C4_Witness ==
    /\ ret.fn = "proficiency_bonus"
    /\ ret.level = 17
    /\ ret.bonus = 6

CheckKey == check_key(ret.ability_or_skill)
CheckProfs == Range(state.proficiencies)
CheckBonus == TierTable[state.level]

C6_TotalAndSuccess ==
    ret.fn = "compute_check" =>
        /\ ret.out.total = ret.out.d20 + ret.out.mod + ret.out.prof
        /\ ret.out.success <=> ret.out.total >= ret.out.dc

\* a check that meets its DC exactly, with a penalty and a bonus in the total
C6_Witness ==
    /\ ret.fn = "compute_check"
    /\ ret.out.total = ret.out.dc
    /\ ret.out.mod < 0
    /\ ret.out.prof > 0
    /\ ret.out.success

\* C7 (as amended): the level's proficiency bonus is added exactly when the
\* proficiency list contains the named key itself or one of the skills that
\* SKILL_MAP lists under that key (for an ability, its skills), and 0 is added
\* otherwise; proficiency in the parent ability of a named skill adds nothing.
C7_BonusWhenListed ==
    ret.fn = "compute_check" =>
        LET listed == IF CheckKey \in DOMAIN SKILL_MAP
                      THEN SKILL_MAP[CheckKey].skills ELSE {}
        IN  ret.out.prof =
                IF CheckKey \in CheckProfs \/ listed \cap CheckProfs # {}
                THEN CheckBonus ELSE 0

\* the ability that SKILL_MAP puts a skill under
AbilityNames ==
    {Strength, Dexterity, T1("constitution"), T1("intelligence"), T1("wisdom"),
     T1("charisma")}
ParentAbility(key) ==
    CHOOSE a \in AbilityNames : SKILL_MAP[a].abbr = SKILL_MAP[key].abbr

\* C7 (as claimed): the bonus is added exactly when the list contains the
\* named skill or the parent ability of the named skill.
C7_BonusWhenSkillOrParent ==
    (ret.fn = "compute_check" /\ CheckKey \in DOMAIN SKILL_MAP) =>
        ret.out.prof =
            IF CheckKey \in CheckProfs \/ ParentAbility(CheckKey) \in CheckProfs
            THEN CheckBonus ELSE 0

\* a Dexterity check of a character proficient in Stealth only
C7_Witness ==
    /\ ret.fn = "compute_check"
    /\ CheckKey = Dexterity
    /\ CheckProfs = {Stealth}
    /\ ret.out.prof = CheckBonus

UnknownOrEmpty ==
    ret.ability_or_skill = EmptyName \/ CheckKey \notin DOMAIN SKILL_MAP

\* C8 (as amended): a name that is not in SKILL_MAP, or an empty name, uses
\* the Strength score for the modifier and an empty list of bonus skills: the
\* bonus is added only when the proficiency list contains the title-cased
\* name itself ('Strength' for an empty name).
C8_UnknownUsesStrength ==
    (ret.fn = "compute_check" /\ UnknownOrEmpty) =>
        /\ IsFloorHalf(ret.out.mod, state.abilities[STR] - 10)
        /\ ret.out.prof = IF CheckKey \in CheckProfs THEN CheckBonus ELSE 0

\* C8 (as claimed): such a check adds no proficiency bonus, whatever the
\* proficiency list contains.
C8_UnknownAddsNoBonus ==
    (ret.fn = "compute_check" /\ UnknownOrEmpty) => ret.out.prof = 0

\* an unknown skill checked for a character whose Strength and Dexterity
\* modifiers differ and who is not proficient in it
C8_Witness ==
    /\ ret.fn = "compute_check"
    /\ CheckKey = Lockpicking
    /\ state.abilities[STR] = 19
    /\ state.abilities[DEX] = 8
    /\ ret.out.mod = 4
    /\ ret.out.prof = 0

(***************************************************************************)
(* The conversation of dungeon_master.py: Spec.                            *)
(*                                                                         *)
(* The handlers call GameStateManager.update_state, log_action and         *)
(* character, which persistence.py does not define.  They are modelled     *)
(* from the specification: update_state merges the given entries into the  *)
(* state and saves it ("persisted after every mutation"), log_action       *)
(* records the line, character is state["character"].                      *)
(***************************************************************************)
update_state(st, key, value) == [st EXCEPT ![key] = value]
log_action(log, line) == Append(log, line)

NoRoll == [kind |-> "none"]

\* What the LLM answers to a scene prompt.  A reply with "narrative:" and
\* "choices:" carries numbered lines "<idx>) <text> (DC <dc> <ability>)"; a
\* reply with SPECIAL lines carries, per line, "CHECK: <ability>, DC: <dc>" or
\* no such part; any other reply (the placeholder too) is plain text.
Line(idx, text, has_dc, dc, ability) ==
    [idx |-> idx, text |-> text, has_dc |-> has_dc, dc |-> dc, ability |-> ability]
Special(ok, ability, dc) == [ok |-> ok, ability |-> ability, dc |-> dc]

\* the replies that are tried
Replies ==
    { [kind |-> "scene",
       lines |-> <<Line(1, "Sneak", TRUE, 12, Stealth),
                   Line(2, "Talk", FALSE, 0, EmptyName)>>],
      [kind |-> "scene",
       lines |-> <<Line(2, "Run", FALSE, 0, EmptyName),
                   Line(3, "Fight", TRUE, 10, Strength)>>],
      [kind |-> "scene",
       lines |-> <<Line(0, "Hide", TRUE, 8, Stealth),
                   Line(1, "Wait", FALSE, 0, EmptyName)>>],
      [kind |-> "scene", lines |-> <<>>],
      [kind |-> "special",
       lines |-> <<Special(FALSE, EmptyName, 0), Special(TRUE, Dexterity, 15)>>],
      [kind |-> "special", lines |-> <<Special(FALSE, EmptyName, 0)>>],
      [kind |-> "plain", lines |-> <<>>] }

Choice(text, has_dc, dc, ability) ==
    [text |-> text, has_dc |-> has_dc, dc |-> dc, ability |-> ability]

\* story, lines 194-203: the choices and the buttons of a numbered list
scene_choices(lines) ==
    [i \in 1..Len(lines) |->
        Choice(lines[i].text, lines[i].has_dc, lines[i].dc, lines[i].ability)]
scene_buttons(lines, sc) ==
    {[kind |-> "choice", scene |-> sc, idx |-> lines[i].idx, pos |-> i] :
        i \in 1..Len(lines)}

\* story, lines 213-221: the choices and the buttons of the SPECIAL lines
RECURSIVE special_choices(_)
special_choices(lines) ==
    IF lines = <<>> THEN <<>>
    ELSE IF Head(lines).ok
         THEN <<Choice("Check", TRUE, Head(lines).dc, Head(lines).ability)>>
              \o special_choices(Tail(lines))
         ELSE special_choices(Tail(lines))
special_buttons(lines, sc) ==
    {[kind |-> "choice", scene |-> sc, idx |-> i,
      pos |-> Cardinality({j \in 1..i : lines[j].ok})] :
        i \in {j \in 1..Len(lines) : lines[j].ok}}

ContinueButton == [kind |-> "continue", scene |-> 0, idx |-> 0, pos |-> 0]
RollButton == [kind |-> "roll", scene |-> 0, idx |-> 0, pos |-> 0]

\* a character that an earlier conversation has created and saved
SavedCharacter == [DEFAULT_STATE EXCEPT !.name = T1("aria")]

Init ==
    /\ state = DEFAULT_STATE
    /\ disk \in {NoFile, TextFile(json_dumps(SavedCharacter))}
    /\ last_saved = NoSnapshot
    /\ nops = 0
    /\ ret = [fn |-> "none"]
    /\ ConvIdle

Handled(op) ==
    /\ UNCHANGED <<llm, sideVars>>
    /\ nops < MaxUpdates
    /\ nops' = nops + 1
    /\ ret' = [fn |-> op]

Saved(st) ==
    /\ state' = st
    /\ disk' = TextFile(json_dumps(st))
    /\ last_saved' = Snapshot(st)

\* /start, the entry point of the conversation.  A player without a saved
\* character is sent to CHOOSING_GENRE; the character-creation handlers that
\* take over from there are the actions of SpecCreate.
start(sent) ==
    /\ conv = "END"
    /\ state' = post_init(disk)
    /\ has_gsm' = TRUE
    /\ conv' = IF ~sent THEN "END"
               ELSE IF state'.name # EmptyName THEN "GAME_LOOP" ELSE "CHOOSING_GENRE"
    /\ ev' = [op |-> "start", prev |-> ev.op, sent |-> sent]
    /\ UNCHANGED <<disk, last_saved, current_choices, pending_roll, buttons,
                   scene, action_log>>

Start(sent) == Handled("start") /\ start(sent)

\* story: a text message, /story or the Continue Story button in GAME_LOOP.
\* Every path of the try block ends with one message; sent is whether it goes
\* through.  When it raises, the except clause returns GAME_LOOP, and when
\* the message of the except clause raises too the handler raises and the
\* conversation stays where it was, in GAME_LOOP as well.
Story(trigger, reply, sent) ==
    /\ conv = "GAME_LOOP"
    /\ trigger = "button" => ContinueButton \in buttons
    /\ Handled("story")
    /\ ev' = [op |-> "story", failed |-> ~sent]
    /\ UNCHANGED <<pending_roll, has_gsm>>
    /\ IF ~has_gsm
       THEN /\ conv' = IF sent THEN "END" ELSE "GAME_LOOP"
            /\ UNCHANGED <<state, disk, last_saved, current_choices, buttons,
                           scene, action_log>>
       ELSE IF trigger = "command"
       THEN /\ conv' = "GAME_LOOP"
            /\ UNCHANGED <<state, disk, last_saved, current_choices, buttons,
                           scene, action_log>>
       ELSE LET parsed == IF reply.kind = "scene" THEN scene_choices(reply.lines)
                          ELSE IF reply.kind = "special"
                          THEN special_choices(reply.lines)
                          ELSE <<>>
                btns   == IF reply.kind = "scene"
                          THEN scene_buttons(reply.lines, scene + 1)
                          ELSE special_buttons(reply.lines, scene + 1)
            IN  /\ action_log' = log_action(action_log, "Player")
                /\ IF reply.kind = "scene" \/ parsed # <<>>
                   THEN /\ Saved(update_state(state, "story",
                                              Append(state.story, "narrative")))
                        /\ current_choices' = parsed
                        /\ scene' = scene + 1
                        /\ buttons' = IF sent THEN buttons \cup btns ELSE buttons
                        /\ conv' = IF sent THEN "HANDLING_CHOICE" ELSE "GAME_LOOP"
                   ELSE /\ buttons' = IF sent THEN buttons \cup {ContinueButton}
                                      ELSE buttons
                        /\ conv' = "GAME_LOOP"
                        /\ UNCHANGED <<state, disk, last_saved, current_choices,
                                       scene>>

choice_in_range_no_lower(idx, choices) == idx < Len(choices)

\* handle_choice, line 253: the guard on the index of the callback
choice_in_range(idx, choices) == ~(idx < 0 \/ idx >= Len(choices))

\* choices[idx] of a Python list: a negative index counts from the end, an
\* index outside [-len, len) raises IndexError
index_raises(idx, choices) == idx >= Len(choices) \/ idx < 0 - Len(choices)
list_item(choices, idx) ==
    choices[IF idx >= 0 THEN idx + 1 ELSE Len(choices) + idx + 1]

INVALID_CHOICE == "Invalid choice!"
CHOICE_FAILED == "Choice processing failed."
OUTCOME_FAILED == "Outcome generation failed."

\* handle_choice (with resolve_choice): a tap on a choice button in
\* HANDLING_CHOICE.  The callback data is "choice_<idx>" and nothing else.
\* context.user_data["gsm"] raises KeyError after a /reset has removed it.
\* sent is whether the handler's send_message goes through; when it raises,
\* the except clause sends its own message and returns GAME_LOOP.  notice is
\* whether the messages of the except clauses go through; when they raise,
\* the handler raises and the conversation stays where it was.
HandleChoice(b, sent, notice) ==
    /\ conv = "HANDLING_CHOICE"
    /\ b \in buttons
    /\ b.kind = "choice"
    /\ Handled("handle_choice")
    /\ UNCHANGED <<current_choices, scene, has_gsm>>
    /\ LET idx     == b.idx - 1
           choices == current_choices
           valid   == choice_in_range(idx, choices)
           raises  == valid /\ (index_raises(idx, choices) \/ ~has_gsm)
           raised  == (raises \/ ~sent) /\ ~notice
           Returned(c) == IF raised THEN conv ELSE c
           Event(message) ==
               [op |-> "handle_choice", stale |-> b.scene # scene,
                selected |-> valid /\ ~raises, number |-> b.idx,
                shown |-> b.pos,
                picked |-> IF ~valid \/ raises THEN 0
                           ELSE IF idx >= 0 THEN idx + 1
                           ELSE Len(choices) + idx + 1,
                message |-> IF raised THEN "none" ELSE message,
                failed |-> raises \/ ~sent, raised |-> raised,
                state_before |-> state,
                roll_before |-> pending_roll, log_before |-> action_log]
       IN  IF ~valid \/ raises
           THEN /\ ev' = Event(IF valid \/ ~sent THEN CHOICE_FAILED
                               ELSE INVALID_CHOICE)
                /\ conv' = Returned("GAME_LOOP")
                /\ UNCHANGED <<state, disk, last_saved, pending_roll, buttons,
                               action_log>>
           ELSE LET sel == list_item(choices, idx)
                IN  IF sel.has_dc
                    THEN /\ ev' = Event(IF sent THEN "check" ELSE CHOICE_FAILED)
                         /\ action_log' = log_action(action_log, "Choice")
                         /\ pending_roll' =
                               [kind |-> "roll", dc |-> sel.dc,
                                ability |-> sel.ability,
                                choice_text |-> sel.text]
                         /\ buttons' = IF sent THEN buttons \cup {RollButton}
                                       ELSE buttons
                         /\ conv' = Returned(IF sent THEN "AWAITING_ROLL"
                                             ELSE "GAME_LOOP")
                         /\ UNCHANGED <<state, disk, last_saved>>
                    ELSE /\ ev' = Event(IF sent THEN "outcome" ELSE OUTCOME_FAILED)
                         /\ action_log' =
                               log_action(log_action(action_log, "Choice"), "DM")
                         /\ Saved(update_state(state, "story",
                                               Append(state.story, "outcome")))
                         /\ buttons' = IF sent THEN buttons \cup {ContinueButton}
                                       ELSE buttons
                         /\ conv' = Returned("GAME_LOOP")
                         /\ UNCHANGED pending_roll

\* handle_roll: a tap on the Roll D20 button in AWAITING_ROLL.  Without a
\* pending roll it answers "No active roll!"; without a gsm the KeyError is
\* caught by the except clause; both return GAME_LOOP.  sent and notice are
\* as in HandleChoice.
HandleRoll(roll, sent, notice) ==
    /\ conv = "AWAITING_ROLL"
    /\ RollButton \in buttons
    /\ Handled("handle_roll")
    /\ UNCHANGED <<current_choices, scene, has_gsm>>
    /\ LET failed == IF pending_roll.kind = "none" THEN ~sent
                     ELSE ~has_gsm \/ ~sent
           raised == failed /\ ~notice
       IN  /\ conv' = IF raised THEN conv ELSE "GAME_LOOP"
           /\ IF pending_roll.kind = "none" \/ ~has_gsm
              THEN /\ ev' = [op |-> "handle_roll", failed |-> failed,
                             raised |-> raised]
                   /\ UNCHANGED <<state, disk, last_saved, pending_roll,
                                  buttons, action_log>>
              ELSE LET score == Get(state.abilities, pending_roll.ability, 10)
                       mod   == calculate_modifier(score)
                   IN  /\ ev' = [op |-> "handle_roll", failed |-> failed,
                                 raised |-> raised, roll |-> roll, mod |-> mod,
                                 total |-> roll + mod, dc |-> pending_roll.dc]
                       /\ action_log' =
                             log_action(log_action(action_log, "Roll"), "DM")
                       /\ Saved(update_state(state, "story",
                                             Append(state.story, "outcome")))
                       /\ buttons' = IF sent THEN buttons \cup {ContinueButton}
                                     ELSE buttons
                       /\ pending_roll' = IF sent THEN NoRoll ELSE pending_roll

\* shutil.rmtree(os.path.join("saves", user_id)) removes the directory
\* saves/<user_id> if there is one; the save file saves/<user_id>.json is
\* not inside it
reset_files(file, dir_exists) == file

\* /reset, as a fallback of the conversation or as a command outside it.
\* The handler has no try: when its reply raises, the conversation keeps its
\* state.
Reset(dir_exists, sent) ==
    /\ has_gsm' = FALSE
    /\ disk' = reset_files(disk, dir_exists)
    /\ conv' = IF sent THEN "END" ELSE conv
    /\ ev' = [op |-> "reset", sent |-> sent, had_character |->
                  (disk.kind = "text" /\ json_loads(disk.doc).name # EmptyName)]
    /\ ret' = [fn |-> "reset"]
    /\ UNCHANGED <<state, last_saved, nops, current_choices, pending_roll,
                   buttons, scene, action_log, llm>>
    /\ UNCHANGED sideVars

\* the arguments of /additem that are tried
ItemArgs == {<<>>, <<"rope">>}

\* /additem.  main() registers add_item with the application and not in the
\* ConversationHandler, so the state it returns (GAME_LOOP, WAITING_ITEM or
\* END) is dropped and the conversation stays where it is.
AddItem(args, sent) ==
    /\ Handled("add_item")
    /\ ev' = [op |-> "add_item", prompted |-> (has_gsm /\ args = <<>> /\ sent),
              returned |-> IF ~has_gsm THEN "END"
                           ELSE IF args # <<>> THEN "GAME_LOOP"
                           ELSE "WAITING_ITEM"]
    /\ IF has_gsm /\ args # <<>>
       THEN Saved(update_state(state, "inventory",
                               Append(state.inventory, args[1])))
       ELSE UNCHANGED <<state, disk, last_saved>>
    /\ UNCHANGED <<conv, current_choices, pending_roll, buttons, scene,
                   has_gsm, action_log>>

Next ==
    \/ \E dir_exists \in BOOLEAN, sent \in BOOLEAN : Reset(dir_exists, sent)
    \/ \E args \in ItemArgs, sent \in BOOLEAN : AddItem(args, sent)
    \/ \E sent \in BOOLEAN : Start(sent)
    \/ \E trigger \in {"text", "command", "button"}, reply \in Replies,
          sent \in BOOLEAN : Story(trigger, reply, sent)
    \/ \E b \in buttons, sent \in BOOLEAN, notice \in BOOLEAN :
          HandleChoice(b, sent, notice)
    \/ \E roll \in D20, sent \in BOOLEAN, notice \in BOOLEAN :
          HandleRoll(roll, sent, notice)

Spec == Init /\ [][Next]_vars

(***************************************************************************)
(* Claims about the conversation.                                          *)
(***************************************************************************)
\* C1: a choice callback that belongs to a scene other than the one whose
\* choices are stored is rejected by handle_choice: no choice is resolved, no
\* roll is armed, and XP, HP, inventory and story are left unchanged.
C1_StaleChoiceRejected ==
    (ev.op = "handle_choice" /\ ev.stale) =>
        /\ ~ev.selected
        /\ pending_roll = ev.roll_before
        /\ state = ev.state_before

\* C19: a choice callback whose number is outside the range of the stored
\* choices (below 1 or above their count, also when no choices are stored)
\* gets a message sent to the chat and changes nothing: no pending roll is
\* created, no action is logged, and the game state and its file are as
\* before.  (The message is sent when Telegram takes one: when it takes
\* neither "Invalid choice!" nor the notice of the except clause, the
\* handler raises, and still changes nothing.)
C19_OutOfRangeChangesNothing ==
    (/\ ev.op = "handle_choice"
     /\ (ev.number < 1 \/ ev.number > Len(current_choices))) =>
        /\ ~ev.raised => /\ ev.message \in {INVALID_CHOICE, CHOICE_FAILED}
                         /\ conv = "GAME_LOOP"
        /\ ev.raised => conv = "HANDLING_CHOICE"
        /\ pending_roll = ev.roll_before
        /\ action_log = ev.log_before
        /\ state = ev.state_before

\* the button numbered 0 of a scene whose two choices are stored
C19_Witness ==
    /\ ev.op = "handle_choice"
    /\ ev.number = 0
    /\ Len(current_choices) = 2
    /\ ev.message = INVALID_CHOICE
    /\ action_log # <<>>

(***************************************************************************)
(* The LLM calls: generate_gpt_response of dungeon_master.py and            *)
(* PromptBuilder._call_llm_json of prompt_builder.py.                       *)
(*                                                                         *)
(* A text is a sequence of tokens: an opening brace, a closing brace, the  *)
(* members of an object (with the keys they define), a JSON array,         *)
(* whitespace, or prose.  A function that can raise yields Return(v) or    *)
(* Raise.                                                                  *)
(***************************************************************************)
Tok(t) == [t |-> t, keys |-> {}]
LB == Tok("{")
RB == Tok("}")
WS == Tok("ws")
Prose == Tok("prose")
Array == Tok("array")
Members(keys) == [t |-> "members", keys |-> keys]

Obj(keys) == [kind |-> "obj", keys |-> keys]
Arr == [kind |-> "array", keys |-> {}]

Return(v) == [exc |-> FALSE, val |-> v]
Raise == [exc |-> TRUE, val |-> [kind |-> "none", keys |-> {}]]

RECURSIVE LStripWs(_)
LStripWs(t) == IF t # <<>> /\ Head(t) = WS THEN LStripWs(Tail(t)) ELSE t

RECURSIVE RStripWs(_)
RStripWs(t) ==
    IF t # <<>> /\ t[Len(t)] = WS THEN RStripWs(SubSeq(t, 1, Len(t) - 1)) ELSE t

\* str.strip() of a text
StripWs(t) == RStripWs(LStripWs(t))

RECURSIVE NoWs(_)
NoWs(t) ==
    IF t = <<>> THEN <<>>
    ELSE IF Head(t) = WS THEN NoWs(Tail(t)) ELSE <<Head(t)>> \o NoWs(Tail(t))

\* json.loads(t): an array, or an object "{" members "}" with whitespace
\* allowed between the tokens; any other text raises
json_loads_text(t) ==
    LET u == NoWs(t)
    IN  IF u = <<Array>> THEN Return(Arr)
        ELSE IF u = <<LB, RB>> THEN Return(Obj({}))
        ELSE IF Len(u) = 3 /\ u[1] = LB /\ u[3] = RB /\ u[2].t = "members"
        THEN Return(Obj(u[2].keys))
        ELSE Raise

\* t.find("{") and t.rfind("}"), as positions from 1, 0 when there is none
find_lb(t) ==
    IF \E i \in 1..Len(t) : t[i] = LB
    THEN CHOOSE i \in 1..Len(t) : t[i] = LB /\ \A j \in 1..(i - 1) : t[j] # LB
    ELSE 0
rfind_rb(t) ==
    IF \E i \in 1..Len(t) : t[i] = RB
    THEN CHOOSE i \in 1..Len(t) : t[i] = RB /\ \A j \in (i + 1)..Len(t) : t[j] # RB
    ELSE 0

\* PromptBuilder._extract_json
extract_json(text) ==
    LET t == StripWs(text)
    IN  IF t = <<>> THEN Raise
        ELSE IF ~json_loads_text(t).exc THEN json_loads_text(t)
        ELSE LET b == find_lb(t)
                 e == rfind_rb(t)
             IN  IF b # 0 /\ e # 0 /\ e > b
                 THEN json_loads_text(SubSeq(t, b, e))
                 ELSE Raise

\* PromptBuilder._resp_text
resp_text(resp) == StripWs(resp.text)

PRIMARY_MODEL == "gpt-5"

\* the values of DM_FALLBACK_MODEL that are tried: unset to empty, the
\* primary model's name, and the default
FallbackModels == {"", "gpt-5", "gpt-4o-mini"}

SceneKeys == {"narrative", "choices"}
OutcomeKeys == {"narrative", "consequences", "followup_choices"}

\* "Final safety" of _call_llm_json
PLACEHOLDER_SCENE == Obj({"narrative", "choices"})

\* what generate_gpt_response returns when the call fails
GPT_PLACEHOLDER == [kind |-> "text", text |-> <<Tok("The story momentarily clears...")>>]

\* How one call of the API ends: it raises, or it returns a message whose
\* content is missing, or it returns a text.
ApiRaises == [raises |-> TRUE, none |-> FALSE, text |-> <<>>]
NoContent == [raises |-> FALSE, none |-> TRUE, text |-> <<>>]
Reply(text) == [raises |-> FALSE, none |-> FALSE, text |-> text]

\* the texts that are tried
LlmTexts ==
    { <<>>,
      <<WS>>,
      <<LB, Members(OutcomeKeys), RB>>,
      <<WS, LB, WS, Members(SceneKeys), RB>>,
      <<Prose, LB, Members(OutcomeKeys), RB, Prose>>,
      <<Prose>>,
      <<RB, Prose, LB>>,
      <<LB, Prose, RB>>,
      <<LB, RB>>,
      <<Array>> }

ApiOutcomes == {ApiRaises} \cup {Reply(t) : t \in LlmTexts}
ChatOutcomes == {ApiRaises, NoContent, Reply(<<WS, Prose, WS>>), Reply(<<>>)}

generate_gpt_response_no_except(o) ==
    IF o.raises \/ o.none THEN Raise
    ELSE Return([kind |-> "text", text |-> StripWs(o.text)])

\* generate_gpt_response: the whole body is inside try, and the except
\* clause returns the placeholder
generate_gpt_response(o) ==
    LET body == IF o.raises THEN Raise
                ELSE IF o.none THEN Raise
                ELSE Return([kind |-> "text", text |-> StripWs(o.text)])
    IN  IF body.exc THEN Return(GPT_PLACEHOLDER) ELSE body

core_step_retry_again(attempt, o) ==
    IF o.raises THEN "raise"
    ELSE IF ~extract_json(resp_text(o)).exc THEN "return"
    ELSE "retry"

\* _call_llm_json_core after the call of attempt 1 or 2 has ended: the
\* call is outside the try, so an API error leaves the function at once; a
\* text that does not parse leads to attempt 2, and after attempt 2 to
\* ValueError("unparseable")
core_step(attempt, o) ==
    IF o.raises THEN "raise"
    ELSE IF ~extract_json(resp_text(o)).exc THEN "return"
    ELSE IF attempt = 1 THEN "retry"
    ELSE "raise"

\* _call_llm_json, line 212
use_fallback(fallback) == fallback # "" /\ fallback # PRIMARY_MODEL

\* _call_llm_json after _call_llm_json_core has raised: the fallback model
\* is tried after the primary one if line 212 allows it, and the placeholder
\* is returned otherwise
after_core_raises(phase, fallback) ==
    IF phase = "primary" /\ use_fallback(fallback) THEN "fallback" ELSE "placeholder"

Builders == {"build_opening_scene", "build_scene_prompt", "build_outcome_prompt"}

(***************************************************************************)
(* The LLM calls as a state machine: SpecLlm.  A step is one call of the   *)
(* API together with everything the code does until the next call or the   *)
(* return.                                                                 *)
(***************************************************************************)
InitLlm ==
    /\ state = DEFAULT_STATE
    /\ disk = NoFile
    /\ last_saved = NoSnapshot
    /\ nops = 0
    /\ ret = [fn |-> "none"]
    /\ ChatIdle
    /\ SideIdle
    /\ \E fallback \in FallbackModels : llm = LlmIdle(fallback)

\* build_opening_scene, build_scene_prompt or build_outcome_prompt enters
\* _call_llm_json, which enters _call_llm_json_core for the primary model
Request(builder) ==
    /\ llm.pc = "idle"
    /\ llm' = [llm EXCEPT !.pc = "calling", !.builder = builder]
    /\ UNCHANGED <<state, disk, last_saved, nops, ret>>
    /\ UNCHANGED <<chatVars, sideVars>>

\* self._responses(...) of attempt 1 or attempt 2 ends with outcome o
ApiCall(o) ==
    /\ llm.pc = "calling"
    /\ LET step == core_step(llm.attempt, o)
           call == [phase  |-> llm.phase,
                    model  |-> IF llm.phase = "primary" THEN PRIMARY_MODEL
                               ELSE llm.fallback,
                    strict |-> llm.attempt >= 2,
                    text   |-> o.text,
                    raised |-> o.raises,
                    failed |-> step # "return"]
           calls == Append(llm.calls, call)
       IN  IF step = "return"
           THEN llm' = [llm EXCEPT !.calls = calls, !.pc = "done",
                                   !.result = extract_json(resp_text(o))]
           ELSE IF step = "retry"
           THEN llm' = [llm EXCEPT !.calls = calls, !.attempt = llm.attempt + 1]
           ELSE IF after_core_raises(llm.phase, llm.fallback) = "fallback"
           THEN llm' = [llm EXCEPT !.calls = calls, !.phase = "fallback",
                                   !.attempt = 1]
           ELSE llm' = [llm EXCEPT !.calls = calls, !.pc = "done",
                                   !.result = Return(PLACEHOLDER_SCENE)]
    /\ UNCHANGED <<state, disk, last_saved, nops, ret>>
    /\ UNCHANGED <<chatVars, sideVars>>

\* a call of generate_gpt_response whose chat completion ends with outcome o
GenerateGptResponse(o) ==
    /\ ret.fn = "none"
    /\ ret' = [fn |-> "generate_gpt_response", api |-> o,
               out |-> generate_gpt_response(o)]
    /\ UNCHANGED <<state, disk, last_saved, nops, llm>>
    /\ UNCHANGED <<chatVars, sideVars>>

NextLlm ==
    \/ \E builder \in Builders : Request(builder)
    \/ \E o \in ApiOutcomes : ApiCall(o)
    \/ \E o \in ChatOutcomes : GenerateGptResponse(o)

SpecLlm == InitLlm /\ [][NextLlm]_vars

\* Every call of the API returns or raises (the calls are synchronous), so a
\* request that is waiting for a call goes on.
SpecLlmFair == SpecLlm /\ WF_vars(\E o \in ApiOutcomes : ApiCall(o))

(***************************************************************************)
(* Claims about the LLM calls.                                             *)
(***************************************************************************)
Calls == llm.calls
CallsOf(phase) == {i \in 1..Len(Calls) : Calls[i].phase = phase}
AllCallsFailed == \A i \in 1..Len(Calls) : Calls[i].failed

\* C14: a failing LLM call never propagates an exception: when the API call
\* raises, generate_gpt_response returns the static placeholder narrative,
\* and when every model attempt raises or yields text that does not parse,
\* _call_llm_json returns the placeholder scene.
C14_LlmFailureGivesPlaceholder ==
    /\ ret.fn = "generate_gpt_response" =>
          /\ ~ret.out.exc
          /\ (ret.api.raises \/ ret.api.none) => ret.out.val = GPT_PLACEHOLDER
    /\ llm.pc = "done" =>
          /\ ~llm.result.exc
          /\ AllCallsFailed => llm.result.val = PLACEHOLDER_SCENE

\* both models were tried twice and no reply parsed, and a chat completion
\* raised
C14_Witness ==
    /\ llm.pc = "done"
    /\ Len(Calls) = 4
    /\ AllCallsFailed
    /\ Calls[4].raised
    /\ ret.fn = "generate_gpt_response"
    /\ ret.api.raises

\* the calls made so far are in the order primary, primary with the stricter
\* prompt, fallback, fallback with the stricter prompt; a stricter retry
\* follows a reply of the same model that did not parse; no call follows a
\* reply that parsed
CallOrder ==
    /\ Cardinality(CallsOf("primary")) <= 2
    /\ Cardinality(CallsOf("fallback")) <= 2
    /\ \A i \in 1..Len(Calls) :
          /\ Calls[i].phase = "fallback" =>
                \A j \in i..Len(Calls) : Calls[j].phase = "fallback"
          /\ Calls[i].strict <=>
                (i > 1 /\ Calls[i - 1].phase = Calls[i].phase)
          /\ Calls[i].strict => ~Calls[i - 1].raised
          /\ i < Len(Calls) => Calls[i].failed
    /\ llm.pc = "done" =>
          /\ Len(Calls) >= 1
          /\ Calls[Len(Calls)].failed => llm.result.val = PLACEHOLDER_SCENE

\* C15: for one _call_llm_json request the recovery steps happen in a fixed
\* order and always terminate: the primary model's reply is parsed (with the
\* outermost brace pair salvaged), then one stricter retry on the primary
\* model, then the same two attempts on the fallback model, then the
\* placeholder; at most two calls go to each model and no call follows a
\* successful parse.
C15_RecoveryOrderAndTermination ==
    /\ []CallOrder
    /\ (llm.pc = "calling") ~> (llm.pc = "done")

\* a reply that parses only by its outermost brace pair, given to the
\* stricter retry on the fallback model after three replies that did not
\* parse
C15_Witness ==
    /\ llm.pc = "done"
    /\ Len(Calls) = 4
    /\ ~Calls[4].failed
    /\ Calls[4].strict
    /\ Calls[4].phase = "fallback"
    /\ Calls[4].text = <<Prose, LB, Members(OutcomeKeys), RB, Prose>>
    /\ llm.result.val = Obj(OutcomeKeys)

\* C16: the fallback model is called only after two attempts on the primary
\* model have been made and have both failed, and never when the fallback
\* model name is empty or equal to the primary model name.
C16_FallbackAfterTwoPrimaryFailures ==
    \A i \in CallsOf("fallback") :
        /\ Cardinality({j \in CallsOf("primary") : j < i /\ Calls[j].failed}) = 2
        /\ llm.fallback # ""
        /\ llm.fallback # PRIMARY_MODEL

RequiredKeys(builder) ==
    IF builder = "build_outcome_prompt" THEN OutcomeKeys ELSE SceneKeys

\* C17: whatever the LLM returns or however it fails, build_outcome_prompt
\* returns an object with the keys narrative, consequences and
\* followup_choices, and build_opening_scene / build_scene_prompt return an
\* object with narrative and choices, the placeholder included.
C17_ResultHasShape ==
    llm.pc = "done" =>
        /\ llm.result.val.kind = "obj"
        /\ RequiredKeys(llm.builder) \subseteq llm.result.val.keys

(***************************************************************************)
(* Claims about /reset, /additem, the choice buttons, the pending roll and *)
(* the handlers that fail.                                                 *)
(***************************************************************************)
\* C21: after /reset for a player who has a saved character, the persisted
\* game state is deleted: the next /start loads the default state (empty
\* name) and begins character creation at the genre prompt.
C21_ResetDeletesSave ==
    /\ (ev.op = "reset" /\ ev.sent /\ ev.had_character) => disk = NoFile
    /\ (ev.op = "start" /\ ev.prev = "reset" /\ ev.sent) =>
           (state.name = EmptyName /\ conv = "CHOOSING_GENRE")

\* C26: /additem without an argument prompts for an item and puts the
\* conversation in WAITING_ITEM, so that the next text message goes to
\* save_item and not to story.
C26_AddItemWaitsForItem ==
    (ev.op = "add_item" /\ ev.prompted) => conv = "WAITING_ITEM"

\* the choice buttons that story sent for the scene whose choices are stored
SceneButtons == {b \in buttons : b.kind = "choice" /\ b.scene = scene}

\* C27: whenever the conversation is in HANDLING_CHOICE, the stored
\* current_choices are non-empty and at least one choice button was sent,
\* whatever text the LLM returned.
C27_ChoicesWhenHandlingChoice ==
    conv = "HANDLING_CHOICE" => (current_choices # <<>> /\ SceneButtons # {})

\* C28: tapping the button that story showed for a parsed choice makes
\* handle_choice select that same choice, never another one and never
\* "Invalid choice!".
C28_ButtonSelectsItsChoice ==
    (/\ ev.op = "handle_choice"
     /\ ~ev.stale
     /\ ~ev.raised
     /\ ev.message # CHOICE_FAILED) =>
        (ev.selected /\ ev.picked = ev.shown)

\* C29: in AWAITING_ROLL a pending roll exists; after handle_roll returns,
\* on success or on failure, none remains; none exists while the
\* conversation is in GAME_LOOP or HANDLING_CHOICE.
C29_PendingRollOnlyWhileAwaiting ==
    /\ conv = "AWAITING_ROLL" => pending_roll # NoRoll
    /\ ev.op = "handle_roll" => pending_roll = NoRoll
    /\ conv \in {"GAME_LOOP", "HANDLING_CHOICE"} => pending_roll = NoRoll

\* C33: an exception raised inside story, handle_choice, resolve_choice or
\* handle_roll is caught and the conversation goes on in GAME_LOOP; no
\* failure of these handlers ends the conversation or leaves it in
\* HANDLING_CHOICE or AWAITING_ROLL.
C33_FailureReturnsToGameLoop ==
    (ev.op \in {"story", "handle_choice", "handle_roll"} /\ ev.failed) =>
        conv = "GAME_LOOP"

(***************************************************************************)
(* A claim about the keys of the ability scores.                           *)
(***************************************************************************)
\* C30: ability scores are read under the key they are written under: after
\* /boost raises ability A by n, a check of A uses the stored score, not
\* the default 10.
C30_CheckUsesBoostedScore ==
    (ret.fn = "compute_check" /\ "boosted_score" \in DOMAIN ret) =>
        IsFloorHalf(ret.out.mod, ret.boosted_score - 10)

(***************************************************************************)
(* GameStateManager.autosave and its rotating backups: SpecBackup.         *)
(*                                                                         *)
(* A backup file saves/<user_id>.<ts>.bak.json is a record of its user id, *)
(* its timestamp and its text.  The clock is int(time.time()); it does not *)
(* go back, and two autosaves can fall into the same second.               *)
(***************************************************************************)
USER_ID == "1"
OTHER_USER_ID == "12"
KEEP_BACKUPS == 5

BackupFile(user, ts, doc) == [user |-> user, ts |-> ts, doc |-> doc]

\* the order of sorted(): the names differ in their timestamps only, which
\* are compared as text, digit by digit
RECURSIVE LexLess(_, _)
LexLess(a, b) ==
    IF b = <<>> THEN FALSE
    ELSE IF a = <<>> THEN TRUE
    ELSE IF Head(a) # Head(b) THEN Head(a) < Head(b)
    ELSE LexLess(Tail(a), Tail(b))

NameLess(f, g) == LexLess(Digits(f.ts), Digits(g.ts))

glob_every_user(files, user_id) == files

\* self.save_dir.glob(f"{self.user_id}.*.bak.json"): user ids and timestamps
\* are digits, so a name matches when its user id is the one given
glob(files, user_id) == {f \in files : f.user = user_id}

\* for old in backups[:-5]: old.unlink()
old_backups(matched) ==
    {f \in matched :
        Cardinality({g \in matched : NameLess(f, g)}) >= KEEP_BACKUPS}

\* GameStateManager.autosave after save(): copy the save file to the backup
\* of this second (replacing it if there is one), then remove all but the
\* last five of the player's backups
autosave_backups(files, user_id, ts, doc) ==
    LET copied == {f \in files : ~(f.user = user_id /\ f.ts = ts)}
                      \cup {BackupFile(user_id, ts, doc)}
    IN  copied \ old_backups(glob(copied, user_id))

\* the backups another player has, and the four that an earlier run may have
\* left for this player
OtherBackups ==
    { BackupFile(OTHER_USER_ID, 100, json_dumps(DEFAULT_STATE)),
      BackupFile(OTHER_USER_ID, 101, json_dumps(SavedCharacter)) }
EarlierBackups ==
    {BackupFile(USER_ID, ts, json_dumps(DEFAULT_STATE)) : ts \in 100..103}
EarlierMade == [i \in 1..4 |-> [ts |-> 99 + i, doc |-> json_dumps(DEFAULT_STATE)]]

InitBackup ==
    /\ state = DEFAULT_STATE
    /\ disk = NoFile
    /\ last_saved = NoSnapshot
    /\ nops = 0
    /\ ret = [fn |-> "none"]
    /\ ChatIdle
    /\ llm = LlmIdle("gpt-4o-mini")
    /\ ptb = NoPtb
    /\ \/ backups = [clock |-> 104, files |-> OtherBackups, made |-> <<>>]
       \/ backups = [clock |-> 104, files |-> OtherBackups \cup EarlierBackups,
                     made |-> EarlierMade]

\* a call of autosave, tick seconds after the call before it
Autosave(tick) ==
    /\ Len(backups.made) < MaxAutosaves
    /\ LET ts  == backups.clock + tick
           doc == json_dumps(state)
       IN  /\ disk' = save(state, disk, "ok").file
           /\ last_saved' = Snapshot(state)
           /\ backups' = [clock |-> ts,
                          files |-> autosave_backups(backups.files, USER_ID, ts, doc),
                          made  |-> Append(backups.made, [ts |-> ts, doc |-> doc])]
    /\ ret' = [fn |-> "autosave"]
    /\ UNCHANGED <<state, nops>>
    /\ UNCHANGED <<chatVars, llm, ptb>>

NextBackup ==
    \/ \E tick \in {0, 1} : Autosave(tick)
    \/ AwardXp(299)

SpecBackup == InitBackup /\ [][NextBackup]_vars

(***************************************************************************)
(* A claim about the backups.                                              *)
(***************************************************************************)
OwnBackups == {f \in backups.files : f.user = USER_ID}
Made == backups.made
MadeTs == {Made[i].ts : i \in 1..Len(Made)}

\* the text of the last autosave made in second ts
LastDoc(ts) ==
    Made[CHOOSE i \in 1..Len(Made) :
            Made[i].ts = ts /\ \A j \in (i + 1)..Len(Made) : Made[j].ts # ts].doc

\* the five most recent seconds in which an autosave was made
RecentSeconds == {t \in MadeTs : Cardinality({u \in MadeTs : u > t}) < KEEP_BACKUPS}

IntKey(n) == [t |-> "int", v |-> <<n>>]
TupleKey(a, b) == [t |-> "tuple", v |-> <<a, b>>]

\* str(key)
str(key) == [t |-> "str", v |-> key.v]

EmptyMap == [k \in {} |-> 0]

\* a state of a conversation (GAME_LOOP is 4), and None
ConvState(n) == [kind |-> "state", n |-> n]
NoState == [kind |-> "None", n |-> 0]
ConvName == "dm_conversation"

\* self.data of a new instance when there is no file
PTB_DEFAULT_DATA == [user_data |-> EmptyMap, conversations |-> EmptyMap]

\* json.dumps(self.data): a conversation state is a number, the data of a
\* user an object with a number in it
ptb_dumps(data) ==
    [user_data |->
        [k \in DOMAIN data.user_data |-> [turn |-> JNum(data.user_data[k].turn)]],
     conversations |->
        [n \in DOMAIN data.conversations |->
            [k \in DOMAIN data.conversations[n] |->
                JNum(data.conversations[n][k].n)]]]

\* json.loads(self.path.read_text())
ptb_loads(doc) ==
    [user_data |->
        [k \in DOMAIN doc.user_data |-> [turn |-> NumOf(doc.user_data[k].turn)]],
     conversations |->
        [n \in DOMAIN doc.conversations |->
            [k \in DOMAIN doc.conversations[n] |->
                ConvState(NumOf(doc.conversations[n][k]))]]]

\* TelegramJSONPersistence.__init__
ptb_init(file) ==
    IF file.kind = "text" THEN ptb_loads(file.doc) ELSE PTB_DEFAULT_DATA

\* How far a call of _save gets before the process dies: nothing is written
\* yet, the temporary file is open and partly written, it is written and
\* not renamed yet; or the call returns.
SaveSteps == {"begun", "writing", "written", "replaced"}

Files(file, tmp) == [file |-> file, tmp |-> tmp]

ptb_save_in_place(files, data, until) ==
    IF until = "begun" THEN files
    ELSE IF until = "writing" THEN Files(PartialFile, files.tmp)
    ELSE Files(TextFile(ptb_dumps(data)), files.tmp)

\* TelegramJSONPersistence._save: tmp.write_text(json.dumps(self.data)) and
\* then tmp.replace(self.path)
ptb_save(files, data, until) ==
    IF until = "begun" THEN files
    ELSE IF until = "writing" THEN Files(files.file, PartialFile)
    ELSE IF until = "written"
         THEN Files(files.file, TextFile(ptb_dumps(data)))
    ELSE Files(TextFile(ptb_dumps(data)), NoFile)

\* m.pop(k, None)
Pop(m, k) == [j \in DOMAIN m \ {k} |-> m[j]]

\* TelegramJSONPersistence.update_conversation, before _save
update_conversation(data, name, key, new_state) ==
    LET convs == Get(data.conversations, name, EmptyMap)
        skey  == str(key)
    IN  [data EXCEPT !.conversations =
            (name :> (IF new_state = NoState THEN Pop(convs, skey)
                      ELSE (skey :> new_state) @@ convs)) @@ @]

\* TelegramJSONPersistence.update_user_data, before _save
update_user_data(data, user_id, d) ==
    [data EXCEPT !.user_data = (str(IntKey(user_id)) :> d) @@ @]

\* TelegramJSONPersistence.drop_user_data, before _save
drop_user_data(data, user_id) ==
    [data EXCEPT !.user_data = Pop(@, str(IntKey(user_id)))]

\* TelegramJSONPersistence.get_conversations and get_user_data
get_conversations(data, name) == Get(data.conversations, name, EmptyMap)
get_user_data(data) == data.user_data

\* the keys, states and user data that are tried
ConvKeys == {TupleKey(100, 7), TupleKey(100, 8)}
ConvStates == {ConvState(4), ConvState(12)}
UserIds == {7, 8}
UserDatas == {[turn |-> 1], [turn |-> 12]}

Ptb(data, files, until, updates, conv_given, user_given) ==
    [kind |-> "ptb", data |-> data, file |-> files.file, tmp |-> files.tmp,
     crashed |-> until # "replaced", updates |-> updates, restarted |-> FALSE,
     conv_given |-> conv_given, user_given |-> user_given]

InitPtb ==
    /\ state = DEFAULT_STATE
    /\ disk = NoFile
    /\ last_saved = NoSnapshot
    /\ nops = 0
    /\ ret = [fn |-> "none"]
    /\ ChatIdle
    /\ llm = LlmIdle("gpt-4o-mini")
    /\ backups = NoBackups
    /\ ptb = Ptb(ptb_init(NoFile), Files(NoFile, NoFile), "replaced", 0,
                 EmptyMap, EmptyMap)

PtbUnchanged ==
    /\ UNCHANGED <<state, disk, last_saved, nops>>
    /\ UNCHANGED <<chatVars, llm, backups>>

\* a method of a running instance, called with arg, that changes self.data
\* to data and calls _save, which gets as far as until
Saving(fn, arg, data, until) ==
    /\ ~ptb.crashed
    /\ ptb.updates < MaxPtbUpdates
    /\ ret' = [fn |-> fn, arg |-> arg, until |-> until, prev |-> ptb.file,
               wanted |-> TextFile(ptb_dumps(data)),
               before |-> get_conversations(ptb.data, ConvName)]
    /\ PtbUnchanged

\* update_conversation(name, key, new_state); conv_given is what the
\* framework has given for each key in a call that returned, and not removed
\* since
UpdateConversation(key, new_state, until) ==
    LET data == update_conversation(ptb.data, ConvName, key, new_state)
    IN  /\ Saving(IF new_state = NoState THEN "remove_conversation"
                  ELSE "update_conversation", key, data, until)
        /\ ptb' = Ptb(data, ptb_save(Files(ptb.file, ptb.tmp), data, until),
                      until, ptb.updates + 1,
                      IF until # "replaced" THEN ptb.conv_given
                      ELSE IF new_state = NoState THEN Pop(ptb.conv_given, key)
                      ELSE (key :> new_state) @@ ptb.conv_given,
                      ptb.user_given)

\* update_user_data and refresh_user_data, which have the same body
UpdateUserData(user_id, d, until) ==
    LET data == update_user_data(ptb.data, user_id, d)
    IN  /\ Saving("update_user_data", user_id, data, until)
        /\ ptb' = Ptb(data, ptb_save(Files(ptb.file, ptb.tmp), data, until),
                      until, ptb.updates + 1, ptb.conv_given,
                      IF until # "replaced" THEN ptb.user_given
                      ELSE (IntKey(user_id) :> d) @@ ptb.user_given)

DropUserData(user_id, until) ==
    LET data == drop_user_data(ptb.data, user_id)
    IN  /\ Saving("drop_user_data", user_id, data, until)
        /\ ptb' = Ptb(data, ptb_save(Files(ptb.file, ptb.tmp), data, until),
                      until, ptb.updates + 1, ptb.conv_given,
                      IF until # "replaced" THEN ptb.user_given
                      ELSE Pop(ptb.user_given, IntKey(user_id)))

Flush(until) ==
    /\ Saving("flush", 0, ptb.data, until)
    /\ ptb' = Ptb(ptb.data, ptb_save(Files(ptb.file, ptb.tmp), ptb.data, until),
                  until, ptb.updates + 1, ptb.conv_given, ptb.user_given)

\* the bot restarts, after a crash or not: a new instance reads the same file
RestartPtb ==
    /\ ~ptb.restarted
    /\ ptb' = [ptb EXCEPT !.data = ptb_init(ptb.file), !.restarted = TRUE,
                          !.crashed = FALSE]
    /\ ret' = [fn |-> "restart"]
    /\ PtbUnchanged

NextPtb ==
    \/ \E key \in ConvKeys, new_state \in ConvStates \cup {NoState},
          until \in SaveSteps : UpdateConversation(key, new_state, until)
    \/ \E user_id \in UserIds, d \in UserDatas, until \in SaveSteps :
          UpdateUserData(user_id, d, until)
    \/ \E user_id \in UserIds, until \in SaveSteps : DropUserData(user_id, until)
    \/ \E until \in SaveSteps : Flush(until)
    \/ RestartPtb

SpecPtb == InitPtb /\ [][NextPtb]_vars

\* C23: after update_conversation(name, key, s) or update_user_data(uid, d)
\* and a restart, get_conversations(name) maps the same key to s and
\* get_user_data maps the same uid to d; update_conversation with state None
\* removes that key only.
C23_FrameworkStateSurvivesRestart ==
    /\ ptb.restarted =>
          /\ \A key \in DOMAIN ptb.conv_given :
                /\ key \in DOMAIN get_conversations(ptb.data, ConvName)
                /\ get_conversations(ptb.data, ConvName)[key] = ptb.conv_given[key]
          /\ \A uid \in DOMAIN ptb.user_given :
                /\ uid \in DOMAIN get_user_data(ptb.data)
                /\ get_user_data(ptb.data)[uid] = ptb.user_given[uid]
    /\ (ret.fn = "remove_conversation" /\ ret.until = "replaced") =>
          get_conversations(ptb.data, ConvName) = Pop(ret.before, str(ret.arg))

\* the calls of _save: ret names the method that made the latest one
SAVING_METHODS ==
    {"update_conversation", "remove_conversation", "update_user_data",
     "drop_user_data", "flush"}

\* C31: every update, drop, refresh and flush writes the whole data to a
\* temporary file and renames it over the target: at every moment, a crash
\* at any step of _save included, the persistence file holds the complete
\* contents it had before the call or the complete new contents, never a
\* partial write.
C31_FileIsOldOrNew ==
    /\ ptb.file.kind # "partial"
    /\ ret.fn \in SAVING_METHODS =>
          /\ ptb.file \in {ret.prev, ret.wanted}
          /\ ret.until = "replaced" => ptb.file = ret.wanted
          /\ ret.until # "replaced" => ptb.file = ret.prev
    /\ ptb.restarted => ptb.data = ptb_init(ptb.file)

\* the process died while the temporary file was being written, in a call
\* that was to change a file already written once
C31_Witness ==
    /\ ret.fn \in SAVING_METHODS
    /\ ret.until = "writing"
    /\ ptb.crashed
    /\ ptb.tmp = PartialFile
    /\ ret.prev.kind = "text"
    /\ ret.wanted # ret.prev
    /\ ptb.file = ret.prev

(***************************************************************************)
(* Character creation: SpecCreate.  A text message is a sequence of words  *)
(* and spaces.                                                             *)
(* update_state of a nested dict merges the entries into                   *)
(* state["character"], update_character sets one entry of it; both save.   *)
(***************************************************************************)
\* txt.split(): the words of a text
RECURSIVE Split(_)
Split(txt) ==
    IF txt = <<>> THEN <<>>
    ELSE IF Head(txt) = SP THEN Split(Tail(txt))
    ELSE <<Head(txt)>> \o Split(Tail(txt))

\* " ".join(parts)
RECURSIVE Join(_)
Join(parts) ==
    IF parts = <<>> THEN <<>>
    ELSE IF Len(parts) = 1 THEN parts
    ELSE <<Head(parts), SP>> \o Join(Tail(parts))

Adventurer == T1("adventurer")

class_of_no_default(parts) == Join(Tail(parts))

\* cls = " ".join(parts[1:]) or "Adventurer"
class_of(parts) ==
    IF Join(Tail(parts)) = <<>> THEN Adventurer ELSE Join(Tail(parts))

\* update_state({"character": entries})
update_state_character(st, entries) == [st EXCEPT !.character = entries @@ @]

update_character(st, key, value) ==
    IF key = "abilities" THEN [st EXCEPT !.abilities = value]
    ELSE [st EXCEPT !.character = (key :> value) @@ @]

\* handle_motivation, lines 142-145: stats is shuffled and zipped with rolls
Constitution == T1("constitution")
Intelligence == T1("intelligence")
Wisdom == T1("wisdom")
Charisma == T1("charisma")
STATS == <<Strength, Dexterity, Constitution, Intelligence, Wisdom, Charisma>>
rolled_abilities(stats, rolls) ==
    [s \in Range(stats) |-> rolls[CHOOSE i \in 1..Len(stats) : stats[i] = s]]

\* the answers, the rolls of random.randint(3, 20) and the orders of
\* random.shuffle that are tried
Genres == {T1("noir"), <<SP, Word("sci-fi", "title"), SP>>}
RaceClasses ==
    { <<Word("elf", "title"), SP, Word("ranger", "title")>>,
      <<Word("dwarf", "title")>>,
      <<SP, Word("orc", "title"), SP, SP, Word("shadow", "title"), SP,
        Word("monk", "title")>> }
Names == {T1("bran"), <<Word("ser", "title"), SP, Word("odo", "title"), SP>>}
Motivations == {<<Word("find", "title"), SP, Word("crown", "lower")>>,
                <<SP, Word("revenge", "lower")>>}
RollLists == {<<3, 20, 11, 8, 15, 10>>, <<18, 18, 4, 12, 9, 20>>}
Shuffles == {STATS, <<Charisma, Wisdom, Intelligence, Constitution, Dexterity,
                      Strength>>}

CREATION_STATES ==
    <<"CHOOSING_GENRE", "CHOOSING_RACE_CLASS", "CHOOSING_NAME",
      "CHOOSING_MOTIVATION">>

\* what a creation handler leaves alone
CreationHandled(op, failed) ==
    /\ ret' = [fn |-> op]
    /\ ev' = [op |-> op, failed |-> failed, before |-> conv]
    /\ UNCHANGED <<nops, current_choices, pending_roll, buttons, scene,
                   has_gsm, llm>>
    /\ UNCHANGED sideVars

\* handle_genre.  sent is whether the reply of the try block goes through;
\* the reply of the except clause does.  Without context.user_data["gsm"]
\* the first statement after the strip raises.
HandleGenre(text, sent) ==
    /\ conv = "CHOOSING_GENRE"
    /\ CreationHandled("handle_genre", ~has_gsm \/ ~sent)
    /\ IF has_gsm
       THEN Saved(update_state_character(state, "genre" :> Strip(text)))
       ELSE UNCHANGED <<state, disk, last_saved>>
    /\ conv' = IF has_gsm /\ sent THEN "CHOOSING_RACE_CLASS" ELSE "CHOOSING_GENRE"
    /\ UNCHANGED action_log

\* handle_race_class: parts[0] raises IndexError when the text has no word
HandleRaceClass(text, sent) ==
    /\ conv = "CHOOSING_RACE_CLASS"
    /\ LET parts  == Split(Strip(text))
           stored == parts # <<>> /\ has_gsm
       IN  /\ CreationHandled("handle_race_class", ~stored \/ ~sent)
           /\ IF stored
              THEN Saved(update_state_character(state,
                           ("race" :> <<parts[1]>>) @@ ("class" :> class_of(parts))))
              ELSE UNCHANGED <<state, disk, last_saved>>
           /\ conv' = IF stored /\ sent THEN "CHOOSING_NAME"
                      ELSE "CHOOSING_RACE_CLASS"
    /\ UNCHANGED action_log

HandleName(text, sent) ==
    /\ conv = "CHOOSING_NAME"
    /\ CreationHandled("handle_name", ~has_gsm \/ ~sent)
    /\ IF has_gsm
       THEN Saved(update_state(state, "name", Strip(text)))
       ELSE UNCHANGED <<state, disk, last_saved>>
    /\ conv' = IF has_gsm /\ sent THEN "CHOOSING_MOTIVATION" ELSE "CHOOSING_NAME"
    /\ UNCHANGED action_log

\* handle_motivation.  sends is how many of its two messages (the abilities,
\* the intro) go through; o is how the chat completion for the intro ends.
\* The except clause answers and ends the conversation.
HandleMotivation(text, rolls, stats, o, sends) ==
    /\ conv = "CHOOSING_MOTIVATION"
    /\ CreationHandled("handle_motivation", ~has_gsm \/ sends < 2)
    /\ LET rolled == update_character(
                         update_character(state, "motivation", Strip(text)),
                         "abilities", rolled_abilities(stats, rolls))
           intro  == generate_gpt_response(o).val
       IN  IF ~has_gsm
           THEN UNCHANGED <<state, disk, last_saved, action_log>>
           ELSE IF sends = 0
           THEN Saved(rolled) /\ UNCHANGED action_log
           ELSE /\ action_log' = log_action(action_log, "DM")
                /\ Saved(update_state(rolled, "story",
                             <<IF intro = GPT_PLACEHOLDER THEN "placeholder"
                               ELSE "intro">>))
    /\ conv' = IF has_gsm /\ sends = 2 THEN "GAME_LOOP" ELSE "END"

\* /start in SpecCreate, where no handler makes anything grow and the
\* updates need not be counted
StartCreation(sent) ==
    /\ start(sent)
    /\ ret' = [fn |-> "start"]
    /\ UNCHANGED <<nops, llm>>
    /\ UNCHANGED sideVars

InitCreate ==
    /\ state = DEFAULT_STATE
    /\ disk = NoFile
    /\ last_saved = NoSnapshot
    /\ nops = 0
    /\ ret = [fn |-> "none"]
    /\ ConvIdle

\* what a player who follows the prompts sends
NextAnswer ==
    \/ \E sent \in BOOLEAN : StartCreation(sent)
    \/ \E text \in Genres, sent \in BOOLEAN : HandleGenre(text, sent)
    \/ \E text \in RaceClasses, sent \in BOOLEAN : HandleRaceClass(text, sent)
    \/ \E text \in Names, sent \in BOOLEAN : HandleName(text, sent)
    \/ \E text \in Motivations, rolls \in RollLists, stats \in Shuffles,
          o \in ChatOutcomes, sends \in 0..2 :
          HandleMotivation(text, rolls, stats, o, sends)

NextCreate ==
    \/ NextAnswer
    \/ \E dir_exists \in BOOLEAN, sent \in BOOLEAN : Reset(dir_exists, sent)

SpecCreate == InitCreate /\ [][NextCreate]_vars

\* The player goes on answering and Telegram delivers in the end: a handler
\* whose replies go through is taken when it stays possible.
SpecCreateFair ==
    /\ InitCreate
    /\ [][NextAnswer]_vars
    /\ WF_vars(StartCreation(TRUE))
    /\ WF_vars(\E text \in Genres : HandleGenre(text, TRUE))
    /\ WF_vars(\E text \in RaceClasses : HandleRaceClass(text, TRUE))
    /\ WF_vars(\E text \in Names : HandleName(text, TRUE))
    /\ WF_vars(\E text \in Motivations, rolls \in RollLists, stats \in Shuffles,
                  o \in ChatOutcomes : HandleMotivation(text, rolls, stats, o, 2))

(***************************************************************************)
(* Claims about character creation.                                        *)
(***************************************************************************)
CreationOps ==
    {"handle_genre", "handle_race_class", "handle_name", "handle_motivation"}

AfterCreationState(c) ==
    LET i == CHOOSE j \in 1..Len(CREATION_STATES) : CREATION_STATES[j] = c
    IN  IF i < Len(CREATION_STATES) THEN CREATION_STATES[i + 1] ELSE "GAME_LOOP"

AnswersStored(st) ==
    /\ {"genre", "race", "class", "motivation"} \subseteq DOMAIN st.character
    /\ \A k \in {"genre", "race", "class", "motivation"} :
          st.character[k] # EmptyName
    /\ st.name # EmptyName

\* C24: for a player with no saved character the conversation goes through
\* CHOOSING_GENRE, CHOOSING_RACE_CLASS, CHOOSING_NAME and CHOOSING_MOTIVATION
\* in that order; GAME_LOOP is not entered before the four answers are
\* stored; a handler that fails leaves the conversation in the creation state
\* it was in.
C24_CreationInOrder ==
    /\ (ev.op = "start" /\ ev.sent /\ state.name = EmptyName) =>
          conv = "CHOOSING_GENRE"
    /\ (ev.op \in CreationOps /\ ~ev.failed) =>
          conv = AfterCreationState(ev.before)
    /\ conv = "GAME_LOOP" => AnswersStored(state)
    /\ (ev.op \in CreationOps /\ ev.failed) => conv = ev.before

NewPlayer == conv = "END" /\ ~has_gsm /\ disk = NoFile /\ state = DEFAULT_STATE

Created ==
    /\ conv = "GAME_LOOP"
    /\ AnswersStored(state)
    /\ DOMAIN state.abilities = Range(STATS)
    /\ \A s \in Range(STATS) : state.abilities[s] \in 3..20

====
